---- MODULE Spec2Model ----
(***************************************************************************)
(* Flight delay prediction server (src/server/main.py).                    *)
(*                                                                         *)
(* The process loads a pickled classifier once at start, then serves       *)
(* three endpoints: /predict, /airports and /.  airports.csv is an         *)
(* external file read afresh by every /airports request.  The handlers     *)
(* are coroutines without any await, so each runs to completion on the     *)
(* event loop: one action per handler.                                     *)
(***************************************************************************)
EXTENDS Integers, Sequences, FiniteSets, TLC

(* ---------------------------------------------------------------- bounds *)

\* Largest number of data rows the reference file holds.
MaxRows == 3

\* Probabilities are k/Scale for k in 0..Scale.
Scale == 2

(* ------------------------------------------------------------ input sets *)

\* day_of_week values a client sends: both sides of each end of [1,7].
Days == {0, 1, 7, 8}

\* airport_id values a client sends.
AirportIds == {1, 2}

\* AirportName cells, as sequences of code points.
Atlanta == <<65, 116, 108>>
Boston == <<66, 111, 115>>
Denver == <<68, 101, 110>>

\* The rows an editor of airports.csv writes: the text of the AirportID cell
\* (one string per character) and the AirportName cell.
RowPool ==
    { [AirportID |-> <<"3">>, AirportName |-> Denver],
      [AirportID |-> <<"1">>, AirportName |-> Atlanta],
      [AirportID |-> <<"2">>, AirportName |-> Boston],
      [AirportID |-> <<"1", ".", "5">>, AirportName |-> Atlanta] }

Columns == {"AirportID", "AirportName"}

\* Header lines of airports.csv: both columns, or one of them missing.
Headers == { Columns, {"AirportID"}, {"AirportName"} }

\* Messages of the exceptions the classifier raises.
ErrMsgs == {"boom"}

\* Message of the IndexError raised by prediction[1] on a short output.
IndexErrorMsg == "index 1 is out of bounds"

(* ------------------------------------------------------------ the state  *)

VARIABLES
    model,    \* module global `model`: "None" or "Loaded"
    file,     \* airports.csv as it is on disk now
    req,      \* the last request served since the file last changed
    resp,     \* the response to it
    clfOut,   \* what the classifier did during that request
    airSeen   \* the first /airports response served for the file as it is now

vars == <<model, file, req, resp, clfOut, airSeen>>

ModelStates == {"None", "Loaded"}

NoFile == [exists |-> FALSE, cols |-> {}, rows |-> <<>>]

NoReq == [ep |-> "none", day |-> 0, airport |-> 0, replay |-> FALSE]
NoResp == [status |-> 0, detail |-> <<>>, body |-> <<>>]

NoCall == [kind |-> "none", msg |-> "", probs |-> <<>>]

\* Outputs of predict_proba(...)[0]: a row of zero, one or two probabilities.
ProbVectors ==
    {<<>>} \cup { <<p>> : p \in 0..Scale }
           \cup { <<p, q>> : p \in 0..Scale, q \in 0..Scale }

\* What invoking the classifier does: it raises, or it returns a row.
Outcomes ==
    { [kind |-> "raise", msg |-> m, probs |-> <<>>] : m \in ErrMsgs }
    \cup { [kind |-> "ret", msg |-> "", probs |-> v] : v \in ProbVectors }

(* -------------------------------------------------------------- responses *)

\* raise HTTPException(status_code=s, detail=d)
HTTPException(s, d) == [status |-> s, detail |-> d, body |-> <<>>]

\* A handler's return value, sent with status 200.
Ok(b) == [status |-> 200, detail |-> <<>>, body |-> b]

(* ------------------------------------------------------------- int(text) *)

Digits == {"0", "1", "2", "3", "4", "5", "6", "7", "8", "9"}

DigitVal(c) ==
    CASE c = "0" -> 0 [] c = "1" -> 1 [] c = "2" -> 2 [] c = "3" -> 3
      [] c = "4" -> 4 [] c = "5" -> 5 [] c = "6" -> 6 [] c = "7" -> 7
      [] c = "8" -> 8 [] c = "9" -> 9

RECURSIVE StripLeft(_)
StripLeft(s) ==
    IF s # <<>> /\ Head(s) = " " THEN StripLeft(Tail(s)) ELSE s

RECURSIVE StripRight(_)
StripRight(s) ==
    IF s # <<>> /\ s[Len(s)] = " "
    THEN StripRight(SubSeq(s, 1, Len(s) - 1))
    ELSE s

RECURSIVE DigitsValue(_, _)
DigitsValue(s, acc) ==
    IF s = <<>> THEN acc ELSE DigitsValue(Tail(s), 10 * acc + DigitVal(Head(s)))

\* Python's int(str): surrounding whitespace is dropped, one sign is allowed,
\* then one or more decimal digits; anything else raises ValueError.
PyInt(text) ==
    LET t == StripRight(StripLeft(text))
        signed == t # <<>> /\ Head(t) \in {"+", "-"}
        ds == IF signed THEN Tail(t) ELSE t
        good == ds # <<>> /\ \A i \in 1..Len(ds) : ds[i] \in Digits
    IN  IF ~good THEN [ok |-> FALSE, val |-> 0]
        ELSE [ok |-> TRUE,
              val |-> IF signed /\ Head(t) = "-"
                      THEN 0 - DigitsValue(ds, 0)
                      ELSE DigitsValue(ds, 0)]

(* ------------------------------------------------------- sorting by name *)

\* Python's str order: lexicographic on code points, a proper prefix first.
RECURSIVE StrLess(_, _)
StrLess(a, b) ==
    IF b = <<>> THEN FALSE
    ELSE IF a = <<>> THEN TRUE
    ELSE IF Head(a) # Head(b) THEN Head(a) < Head(b)
    ELSE StrLess(Tail(a), Tail(b))

\* x goes after every element whose name is not greater: the sort is stable.
RECURSIVE InsertByName(_, _)
InsertByName(x, s) ==
    IF s = <<>> THEN <<x>>
    ELSE IF StrLess(x.name, Head(s).name) THEN <<x>> \o s
    ELSE <<Head(s)>> \o InsertByName(x, Tail(s))

RECURSIVE SortFrom(_, _)
SortFrom(s, acc) ==
    IF s = <<>> THEN acc ELSE SortFrom(Tail(s), InsertByName(Head(s), acc))

\* The sort left out: the rows stay in file order.
SortOmitted(s) == s

\* airports.sort(key=lambda x: x['name'])
SortByName(s) == SortFrom(s, <<>>)

(* ---------------------------------------------------------- load_airports *)

ParseFailed == [ok |-> FALSE, airports |-> <<>>]

\* The for loop of load_airports: each row of the DictReader becomes
\* {'id': int(row['AirportID']), 'name': row['AirportName']}.  A header without
\* the column makes row[...] raise KeyError, a cell that is no integer makes
\* int raise ValueError; either leaves the loop at that row.
RECURSIVE ReadRows(_, _, _)
ReadRows(cols, rows, airports) ==
    IF rows = <<>> THEN [ok |-> TRUE, airports |-> airports]
    ELSE IF "AirportID" \notin cols THEN ParseFailed
    ELSE LET id == PyInt(Head(rows).AirportID)
         IN  IF ~id.ok THEN ParseFailed
             ELSE IF "AirportName" \notin cols THEN ParseFailed
             ELSE ReadRows(cols, Tail(rows),
                           Append(airports,
                                  [id |-> id.val, name |-> Head(rows).AirportName]))

\* The try placed inside the loop: a row that raises is skipped, the rest kept.
RECURSIVE ReadRowsSkipping(_, _, _)
ReadRowsSkipping(cols, rows, airports) ==
    IF rows = <<>> THEN airports
    ELSE IF Columns \subseteq cols /\ PyInt(Head(rows).AirportID).ok
    THEN ReadRowsSkipping(cols, Tail(rows),
                          Append(airports,
                                 [id |-> PyInt(Head(rows).AirportID).val,
                                  name |-> Head(rows).AirportName]))
    ELSE ReadRowsSkipping(cols, Tail(rows), airports)

load_airports_skipping(f) ==
    IF ~f.exists THEN <<>>
    ELSE SortByName(ReadRowsSkipping(f.cols, f.rows, <<>>))

\* load_airports(): the sorted list, or [] when open or any row raised.
load_airports(f) ==
    IF ~f.exists THEN <<>>
    ELSE LET read == ReadRows(f.cols, f.rows, <<>>)
         IN  IF read.ok THEN SortByName(read.airports) ELSE <<>>

(* --------------------------------------------------------------- handlers *)

\* max(prediction)
RECURSIVE MaxOf(_)
MaxOf(s) ==
    IF Len(s) = 1 THEN s[1]
    ELSE LET m == MaxOf(Tail(s)) IN IF Head(s) >= m THEN Head(s) ELSE m

\* Marks a request that passed the checks made before the try block.
Passed == [status |-> 0, detail |-> <<"passed">>, body |-> <<>>]

\* Message of the AttributeError raised by None.predict_proba.
AttributeErrorMsg == "'NoneType' object has no attribute 'predict_proba'"

\* The range check off by one at its lower end: 0 <= day_of_week <= 7.
predict_checks_from_zero(day_of_week, airport_id) ==
    IF model = "None"
    THEN HTTPException(500, <<"Model not available">>)
    ELSE IF ~(0 <= day_of_week /\ day_of_week <= 7)
    THEN HTTPException(400, <<"day_of_week must be between 1 and 7">>)
    ELSE Passed

\* The two checks in the other order: the input is validated first.
predict_checks_day_first(day_of_week, airport_id) ==
    IF ~(1 <= day_of_week /\ day_of_week <= 7)
    THEN HTTPException(400, <<"day_of_week must be between 1 and 7">>)
    ELSE IF model = "None"
    THEN HTTPException(500, <<"Model not available">>)
    ELSE Passed

\* predict_delay, lines 83-87: the two checks made before the try block.
predict_checks(day_of_week, airport_id) ==
    IF model = "None"
    THEN HTTPException(500, <<"Model not available">>)
    ELSE IF ~(1 <= day_of_week /\ day_of_week <= 7)
    THEN HTTPException(400, <<"day_of_week must be between 1 and 7">>)
    ELSE Passed

\* confidence taken from the delay class alone: float(prediction[1]).
predict_try_confidence_of_delay(day_of_week, airport_id, out) ==
    IF model = "None"
    THEN [resp |-> HTTPException(500, <<"Prediction error: ", AttributeErrorMsg>>),
          clf |-> NoCall]
    ELSE IF out.kind = "raise"
    THEN [resp |-> HTTPException(500, <<"Prediction error: ", out.msg>>),
          clf |-> out]
    ELSE IF Len(out.probs) < 2
    THEN [resp |-> HTTPException(500, <<"Prediction error: ", IndexErrorMsg>>),
          clf |-> out]
    ELSE [resp |-> Ok(<<[delay_probability |-> out.probs[2],
                         confidence |-> out.probs[2]]>>),
          clf |-> out]

\* The handler catching less than Exception: the IndexError of a short output
\* escapes and the framework answers with its own 500.
predict_try_index_error_escapes(day_of_week, airport_id, out) ==
    IF model = "None"
    THEN [resp |-> HTTPException(500, <<"Prediction error: ", AttributeErrorMsg>>),
          clf |-> NoCall]
    ELSE IF out.kind = "raise"
    THEN [resp |-> HTTPException(500, <<"Prediction error: ", out.msg>>),
          clf |-> out]
    ELSE IF Len(out.probs) < 2
    THEN [resp |-> HTTPException(500, <<"Internal Server Error">>),
          clf |-> out]
    ELSE [resp |-> Ok(<<[delay_probability |-> out.probs[2],
                         confidence |-> MaxOf(out.probs)]>>),
          clf |-> out]

\* predict_delay, lines 89-106: the try block, `out` being what
\* model.predict_proba does.  Gives the response and the classifier call made.
predict_try(day_of_week, airport_id, out) ==
    IF model = "None"
    THEN [resp |-> HTTPException(500, <<"Prediction error: ", AttributeErrorMsg>>),
          clf |-> NoCall]
    ELSE IF out.kind = "raise"
    THEN [resp |-> HTTPException(500, <<"Prediction error: ", out.msg>>),
          clf |-> out]
    ELSE IF Len(out.probs) < 2
    THEN [resp |-> HTTPException(500, <<"Prediction error: ", IndexErrorMsg>>),
          clf |-> out]
    ELSE [resp |-> Ok(<<[delay_probability |-> out.probs[2],
                         confidence |-> MaxOf(out.probs)]>>),
          clf |-> out]

\* The emptiness check left out: an empty list is returned with status 200.
get_airports_unchecked == Ok(load_airports(file))

\* The model check of /predict copied into /airports.
get_airports_needing_model ==
    IF model = "None"
    THEN HTTPException(500, <<"Model not available">>)
    ELSE IF load_airports(file) = <<>>
    THEN HTTPException(500, <<"Unable to load airports data">>)
    ELSE Ok(load_airports(file))

\* A failure that sticks: after an error response the loader is not tried.
get_airports_after_failure ==
    IF resp.status >= 400 \/ load_airports(file) = <<>>
    THEN HTTPException(500, <<"Unable to load airports data">>)
    ELSE Ok(load_airports(file))

\* get_airports()
get_airports ==
    LET airports_data == load_airports(file)
    IN  IF airports_data = <<>>
        THEN HTTPException(500, <<"Unable to load airports data">>)
        ELSE Ok(airports_data)

\* root()
root == Ok(<<[message |-> "Flight Delay Prediction API"]>>)

(* ---------------------------------------------------------------- actions *)

Files ==
    {NoFile} \cup
    { [exists |-> TRUE, cols |-> h, rows |-> rs] :
        h \in Headers, rs \in UNION { [1..n -> RowPool] : n \in 0..MaxRows } }

NotSeen == [by |-> "nobody", resp |-> NoResp]

\* Process start: pickle.load succeeds or raises; no request was served yet.
Init ==
    /\ model \in ModelStates
    /\ file \in Files
    /\ req = NoReq
    /\ resp = NoResp
    /\ clfOut = NoCall
    /\ airSeen = NotSeen

\* The process is started again: the module body runs, the model is loaded.
Restart ==
    /\ model' \in ModelStates
    /\ req' = NoReq
    /\ resp' = NoResp
    /\ clfOut' = NoCall
    /\ UNCHANGED <<file, airSeen>>

\* A reload of the model attempted by each /predict request.
PredictReloading ==
    \E d \in Days, a \in AirportIds, out \in Outcomes :
        /\ req' = [ep |-> "predict", day |-> d, airport |-> a, replay |-> FALSE]
        /\ model' = "Loaded"
        /\ IF ~(1 <= d /\ d <= 7)
           THEN /\ resp' = HTTPException(400, <<"day_of_week must be between 1 and 7">>)
                /\ clfOut' = NoCall
           ELSE /\ resp' = predict_try(d, a, out).resp
                /\ clfOut' = predict_try(d, a, out).clf
        /\ UNCHANGED <<file, airSeen>>

\* GET /predict?day_of_week=d&airport_id=a
Predict ==
    \E d \in Days, a \in AirportIds :
        /\ req' = [ep |-> "predict", day |-> d, airport |-> a, replay |-> FALSE]
        /\ IF predict_checks(d, a) # Passed
           THEN /\ resp' = predict_checks(d, a)
                /\ clfOut' = NoCall
           ELSE \E out \in Outcomes :
                    /\ resp' = predict_try(d, a, out).resp
                    /\ clfOut' = predict_try(d, a, out).clf
        /\ UNCHANGED <<model, file, airSeen>>

\* GET /airports.  airSeen keeps the first response served for the file as
\* it is now, and the model state of the process that served it.  replay:
\* the file was served before and the response just before this request
\* was an error.
GetAirports ==
    /\ req' = [ep |-> "airports", day |-> 0, airport |-> 0,
               replay |-> airSeen # NotSeen /\ resp.status >= 400]
    /\ resp' = get_airports
    /\ clfOut' = NoCall
    /\ airSeen' = IF airSeen = NotSeen
                  THEN [by |-> model, resp |-> get_airports]
                  ELSE airSeen
    /\ UNCHANGED <<model, file>>

\* GET /
Root ==
    /\ req' = [ep |-> "root", day |-> 0, airport |-> 0, replay |-> FALSE]
    /\ resp' = root
    /\ clfOut' = NoCall
    /\ UNCHANGED <<model, file, airSeen>>

\* The environment changes airports.csv; what was observed of the old
\* contents is forgotten.
Forget ==
    /\ req' = NoReq
    /\ resp' = NoResp
    /\ clfOut' = NoCall
    /\ airSeen' = NotSeen
    /\ UNCHANGED model

DeleteFile ==
    /\ file.exists
    /\ file' = NoFile
    /\ Forget

WriteHeader ==
    \E h \in Headers :
        /\ file' = [exists |-> TRUE, cols |-> h, rows |-> <<>>]
        /\ Forget

AppendRow ==
    \E r \in RowPool :
        /\ file.exists
        /\ Len(file.rows) < MaxRows
        /\ file' = [file EXCEPT !.rows = Append(@, r)]
        /\ Forget

Next ==
    \/ Restart
    \/ Predict
    \/ GetAirports
    \/ Root
    \/ DeleteFile
    \/ WriteHeader
    \/ AppendRow

Spec == Init /\ [][Next]_vars

(* ------------------------------------------------------------- properties *)

ValidDay(d) == 1 <= d /\ d <= 7

\* The last request was served by /predict, /airports, /.
IsPredict == req.ep = "predict"
IsAirports == req.ep = "airports"
IsRoot == req.ep = "root"

\* The text of an AirportID cell is an integer.
IsIntegerText(text) == PyInt(text).ok

\* The file opens, has both columns and at least one row, and every id is
\* an integer.
AllRowsParse(f) ==
    /\ f.exists
    /\ f.cols = Columns
    /\ f.rows # <<>>
    /\ \A i \in 1..Len(f.rows) : IsIntegerText(f.rows[i].AirportID)

\* The (id, name) pair a row of the file stands for.
RecordOf(row) == [id |-> PyInt(row.AirportID).val, name |-> row.AirportName]

Occurrences(x, s) == Cardinality({ i \in 1..Len(s) : s[i] = x })

\* body holds the records of rows, each as often as the file does.
IsPermutationOfRows(body, rows) ==
    /\ Len(body) = Len(rows)
    /\ \A i \in 1..Len(rows) :
           Occurrences(RecordOf(rows[i]), body)
               = Cardinality({ j \in 1..Len(rows) : RecordOf(rows[j]) = RecordOf(rows[i]) })

AscendingByName(body) ==
    \A i \in 1..Len(body) : \A j \in 1..Len(body) :
        i < j => ~StrLess(body[j].name, body[i].name)

ExampleRows ==
    << [AirportID |-> <<"3">>, AirportName |-> Denver],
       [AirportID |-> <<"1">>, AirportName |-> Atlanta],
       [AirportID |-> <<"2">>, AirportName |-> Boston] >>

ExampleList ==
    << [id |-> 1, name |-> Atlanta],
       [id |-> 2, name |-> Boston],
       [id |-> 3, name |-> Denver] >>

\* C1, as stated: a /predict request whose day_of_week is outside 1..7 is
\* answered with status 400 for every airport_id, whether the model is
\* loaded or unavailable.
C1_Original ==
    (IsPredict /\ ~ValidDay(req.day)) => resp.status = 400

\* C1, amended: a /predict request whose day_of_week is outside 1..7 is
\* answered, for every airport_id, with status 400 when the model is loaded
\* and with status 500 "Model not available" when it is not; it never gets
\* 200 and the classifier is not invoked.
C1_InvalidDay ==
    (IsPredict /\ ~ValidDay(req.day)) =>
        /\ model = "Loaded" =>
               /\ resp.status = 400
               /\ resp.detail = <<"day_of_week must be between 1 and 7">>
        /\ model = "None" =>
               /\ resp.status = 500
               /\ resp.detail = <<"Model not available">>
        /\ clfOut = NoCall

C1_Witness ==
    IsPredict /\ req.day = 0 /\ model = "Loaded" /\ resp.status = 400

\* C2: while the model is absent every /predict request, for every
\* day_of_week and airport_id, is answered with status 500, and the
\* classifier is never invoked.
C2_ModelAbsent ==
    model = "None" =>
        /\ clfOut = NoCall
        /\ IsPredict => resp.status = 500

C2_Witness ==
    IsPredict /\ model = "None" /\ ~ValidDay(req.day) /\ resp.status = 500

\* C3: for a reference file with at least one row whose rows all parse,
\* /airports answers 200 with a permutation of the file's (id, name) rows,
\* none dropped, added or merged, in ascending order of name; the rows
\* (3,Denver),(1,Atlanta),(2,Boston) give (1,Atlanta),(2,Boston),(3,Denver).
C3_SortedPermutation ==
    (IsAirports /\ AllRowsParse(file)) =>
        /\ resp.status = 200
        /\ IsPermutationOfRows(resp.body, file.rows)
        /\ AscendingByName(resp.body)
        /\ file.rows = ExampleRows => resp.body = ExampleList

C3_Witness ==
    IsAirports /\ file.cols = Columns /\ file.rows = ExampleRows
               /\ resp.status = 200

\* C4: when some row of the reference file has an AirportID that is no
\* integer, /airports answers 500 and carries no list, wherever the row is.
C4_BadIdFailsClosed ==
    (/\ IsAirports
     /\ file.exists
     /\ "AirportID" \in file.cols
     /\ \E i \in 1..Len(file.rows) : ~IsIntegerText(file.rows[i].AirportID)) =>
        /\ resp.status = 500
        /\ resp.body = <<>>

\* The bad row comes last, after rows that parsed.
C4_Witness ==
    /\ IsAirports
    /\ file.cols = Columns
    /\ Len(file.rows) >= 2
    /\ \A i \in 1..(Len(file.rows) - 1) : IsIntegerText(file.rows[i].AirportID)
    /\ ~IsIntegerText(file.rows[Len(file.rows)].AirportID)
    /\ resp.status = 500

\* The first class probability and the second one returned by the classifier.
NoDelayProbability == clfOut.probs[1]
DelayProbability == clfOut.probs[2]

Larger(a, b) == IF a >= b THEN a ELSE b

C6_EmptyOrFailed ==
    IsAirports =>
        /\ (~file.exists \/ file.cols # Columns \/ file.rows = <<>>) =>
               /\ resp.status = 500
               /\ resp.detail = <<"Unable to load airports data">>
        /\ resp.status \in {200, 500}
        /\ resp.status = 200 => resp.body # <<>>

\* A well-formed file without data rows.
C6_Witness ==
    /\ IsAirports
    /\ file.exists /\ file.cols = Columns /\ file.rows = <<>>
    /\ resp.status = 500

\* The classifier raised, or returned fewer than two probabilities.
ClassifierFailed == clfOut.kind = "raise" \/ (clfOut.kind = "ret" /\ Len(clfOut.probs) < 2)

FailureDetail == IF clfOut.kind = "raise" THEN clfOut.msg ELSE IndexErrorMsg

IsPredictionError == resp.detail # <<>> /\ resp.detail[1] = "Prediction error: "

\* C7: with the model loaded and day_of_week in 1..7, a failure of the
\* classifier call or of reading its output (an output of fewer than two
\* probabilities included) is answered with status 500 and detail
\* "Prediction error: <detail>", never with another status or 200; the 400
\* and the "Model not available" 500 are never wrapped as "Prediction error".
C7_ScoringError ==
    IsPredict =>
        /\ (model = "Loaded" /\ ValidDay(req.day) /\ ClassifierFailed) =>
               /\ resp.status = 500
               /\ resp.detail = <<"Prediction error: ", FailureDetail>>
        /\ (model = "None" \/ ~ValidDay(req.day)) => ~IsPredictionError
        /\ IsPredictionError => ClassifierFailed

\* The classifier returned one probability only.
C7_Witness ==
    /\ IsPredict
    /\ clfOut.kind = "ret" /\ Len(clfOut.probs) = 1
    /\ resp.status = 500
    /\ IsPredictionError

\* C8: GET / answers 200 with the same static payload in every state, and
\* /airports answers, for the file as it is, what it answered for it before,
\* also when that answer came from a process in the other model state.
C8_ModelIndependent ==
    /\ IsRoot => resp = [status |-> 200, detail |-> <<>>,
                         body |-> <<[message |-> "Flight Delay Prediction API"]>>]
    /\ IsAirports => resp = airSeen.resp

\* /airports answered by a process whose model state differs from that of
\* the process that answered first for this file.
C8_Witness ==
    /\ IsAirports
    /\ airSeen.by \in ModelStates
    /\ airSeen.by # model
    /\ resp.status = 200

\* C9: no request changes the reference file; /airports asked again for an
\* unchanged file gives the list it gave before, whatever requests, failed
\* or not, were served in between; /predict asked again with the same inputs
\* gives the same response when the classifier gives the same output.
C9_Stateless ==
    [][ req'.ep # "none" =>
          /\ file' = file
          /\ (req'.ep = "airports" /\ airSeen # NotSeen) => resp' = airSeen.resp
          /\ (/\ req'.ep = "predict" /\ IsPredict
              /\ req'.day = req.day /\ req'.airport = req.airport
              /\ clfOut' = clfOut) => resp' = resp ]_vars

\* /airports asked again right after an error response, with the list.
C9_Witness ==
    IsAirports /\ req.replay /\ resp.status = 200

\* C10: no request to any endpoint changes the model handle: loaded stays
\* loaded and absent stays absent for as long as the process runs.
C10_ModelNeverChanges ==
    [][ req'.ep # "none" => model' = model ]_vars

\* Still absent after several requests, the one before the last a failure.
C10_Witness ==
    model = "None" /\ IsAirports /\ req.replay /\ resp.status = 500

====
